---------------------------- MODULE Spec2Model ----------------------------
(***************************************************************************)
(* Model of the hybrid retrieval and greenwashing pipeline of RAG_ESG:     *)
(*   src/RAG_ESG/src/db/vector_store.py        VectorStore                 *)
(*   src/RAG_ESG/src/greenwashing_verifier.py  GreenwashingVerifier        *)
(*   src/RAG_ESG/src/core/rag_engine.py        RAGEngine                   *)
(*                                                                         *)
(* Strings are tuples of one-character strings, so that lower() and the    *)
(* substring test `term in text` are computed and not assumed.  Scores are *)
(* exact rationals kept as integers in units of 1/(AlphaDen * RankScale):  *)
(* the rounding of Python floats is not modelled.                          *)
(***************************************************************************)
EXTENDS Integers, Sequences, FiniteSets, TLC

VARIABLES
    store,       \* VectorStore._store: None or the documents held by the FAISS index
    bm25,        \* VectorStore._bm25: None or the documents the BM25 retriever was built from
    documents,   \* VectorStore._documents
    index_file,  \* the index saved at VectorStore.index_path: None or its documents
    hashSeed,    \* the string-hash seed of the running Python process
    call,        \* the arguments of the call under way
    ret,         \* what the call did: outcome, returned value, collaborators used
    ret2         \* what a second call with the same arguments did

vars == <<store, bm25, documents, index_file, hashSeed, call, ret, ret2>>

\* Python's None and a held object, as a sequence of length 0 or 1
None == <<>>
Some(x) == <<x>>

(***************************************************************************)
(* Bounds of the model.                                                    *)
(***************************************************************************)
\* longest dense hit list drawn
MaxDense == 3
\* longest lexical hit list drawn
MaxLex == 2
\* longest document list given to detect_claims
MaxDocs == 3
\* longest claim list given to verify_claims
MaxClaims == 2
\* most documents the store is given in all
MaxStored == 2
\* longest record list given to green_implement_ratio
MaxRecords == 4

(***************************************************************************)
(* Strings.                                                                *)
(***************************************************************************)
UpperChars == <<"A","B","C","D","E","F","G","H","I","J","K","L","M",
                "N","O","P","Q","R","S","T","U","V","W","X","Y","Z">>
LowerChars == <<"a","b","c","d","e","f","g","h","i","j","k","l","m",
                "n","o","p","q","r","s","t","u","v","w","x","y","z">>
OtherChars == <<" ", "%", "5">>
Alphabet == UpperChars \o LowerChars \o OtherChars

\* ord(c) restricted to the alphabet of the model
Ord(c) == CHOOSE i \in 1..Len(Alphabet) : Alphabet[i] = c

\* str.lower(), one character
LowerChar(c) ==
    IF \E i \in 1..Len(UpperChars) : UpperChars[i] = c
    THEN LowerChars[CHOOSE i \in 1..Len(UpperChars) : UpperChars[i] = c]
    ELSE c

\* str.lower()
lower(s) == [i \in 1..Len(s) |-> LowerChar(s[i])]

\* `sub in s` for Python strings
Contains(s, sub) ==
    \E i \in 0..(Len(s) - Len(sub)) : SubSeq(s, i + 1, i + Len(sub)) = sub

(***************************************************************************)
(* Documents: langchain Document(page_content, metadata{source, page}).    *)
(* A text file has no page in its metadata (processors/document.py).       *)
(***************************************************************************)
\* the page of a document whose metadata has none (PDF pages count from 0)
NoPage == -1

TSolar == <<"S","O","L","A","R">>
TEvergreen == <<"e","v","e","r","g","r","e","e","n">>
TCoupon == <<"c","o","u","p","o","n"," ","5","%">>
TEnergy == <<"E","n","e","r","g","y">>

Doc(src, pg, txt) == [source |-> src, page |-> pg, page_content |-> txt]

D1 == Doc("a.pdf", 1, TSolar)
D2 == Doc("a.pdf", 2, TSolar)
D3 == Doc("b.txt", NoPage, TCoupon)
D4 == Doc("a.pdf", 1, TEvergreen)
D5 == Doc("b.txt", NoPage, TEnergy)

Texts == {TSolar, TEvergreen, TCoupon, TEnergy}

\* identity of a chunk in the sense of the data model: (source, page, text)
Identity(doc) == <<doc.source, doc.page, doc.page_content>>

SeqsUpTo(S, n) == UNION {[1..m -> S] : m \in 0..n}

(***************************************************************************)
(* hash(str): Python salts string hashes per process.  The model keeps the *)
(* salt (hashSeed) and a signed multiplicative hash of the characters; the *)
(* texts and seeds of the model have no collision (HashInjective).         *)
(***************************************************************************)
Seeds == {7, 13}
HashMod == 2^13

RECURSIVE HashFrom(_, _, _)
HashFrom(h, s, i) ==
    IF i > Len(s) THEN h
    ELSE HashFrom((h * 31 + Ord(s[i])) % HashMod, s, i + 1)

PyHash(seed, s) ==
    LET h == HashFrom(seed, s, 1)
    IN IF h >= HashMod \div 2 THEN h - HashMod ELSE h

HashTable == [seed \in Seeds |-> [t \in Texts |-> PyHash(seed, t)]]

HashInjective ==
    \A seed \in Seeds : \A t1, t2 \in Texts :
        HashTable[seed][t1] = HashTable[seed][t2] => t1 = t2

\* doc.metadata.get('page', '')
PageOrEmpty(doc) == IF doc.page = NoPage THEN "" ELSE ToString(doc.page)

\* the three parts of the f-string key, in the running process
doc_key(doc) == <<doc.source, PageOrEmpty(doc), HashTable[hashSeed][doc.page_content]>>

(***************************************************************************)
(* Scores.  alpha is AlphaNum/AlphaDen; 1/(1+rank) is InvRank/RankScale.   *)
(***************************************************************************)
AlphaDen == 10

RECURSIVE Gcd(_, _)
Gcd(a, b) == IF b = 0 THEN a ELSE Gcd(b, a % b)

RECURSIVE LcmUpTo(_)
LcmUpTo(n) == IF n <= 1 THEN 1 ELSE LET l == LcmUpTo(n - 1) IN (l * n) \div Gcd(l, n)

MaxRank == IF MaxDense >= MaxLex THEN MaxDense ELSE MaxLex

RankScale == LcmUpTo(MaxRank + 2)

\* one unit of score: 1.0 is AlphaDen * RankScale
One == AlphaDen * RankScale

\* 1 / (1 + rank)
InvRank(rank) == RankScale \div (1 + rank)

(***************************************************************************)
(* combined: Dict[str, Tuple[Document, float]].  A Python dict keeps its   *)
(* keys in insertion order; assigning to a key it holds keeps the place.   *)
(***************************************************************************)
Entry(key, doc, score) == [key |-> key, doc |-> doc, score |-> score]

HasKey(combined, key) == \E i \in 1..Len(combined) : combined[i].key = key

KeyIndex(combined, key) == CHOOSE i \in 1..Len(combined) : combined[i].key = key

\* a plausible slip: every assignment makes a new entry
DictSetAppends(combined, key, doc, score) == Append(combined, Entry(key, doc, score))

\* combined[key] = (doc, score)
DictSet(combined, key, doc, score) ==
    IF HasKey(combined, key)
    THEN [combined EXCEPT ![KeyIndex(combined, key)] = Entry(key, doc, score)]
    ELSE Append(combined, Entry(key, doc, score))

\* for rank, (doc, score) in enumerate(vector_hits): combined[key] = (doc, alpha * inv_rank_score)
RECURSIVE VectorLoop(_, _, _, _)
VectorLoop(combined, vector_hits, rank, alpha) ==
    IF rank >= Len(vector_hits) THEN combined
    ELSE LET doc == vector_hits[rank + 1]
             key == doc_key(doc)
             inv_rank_score == InvRank(rank)
         IN VectorLoop(DictSet(combined, key, doc, alpha * inv_rank_score),
                       vector_hits, rank + 1, alpha)

\* a plausible slip: the lexical loop assigns like the dense loop does
RECURSIVE Bm25LoopAssigns(_, _, _, _)
Bm25LoopAssigns(combined, bm25_hits, rank, alpha) ==
    IF rank >= Len(bm25_hits) THEN combined
    ELSE LET doc == bm25_hits[rank + 1]
         IN Bm25LoopAssigns(DictSet(combined, doc_key(doc), doc,
                                    (AlphaDen - alpha) * InvRank(rank)),
                            bm25_hits, rank + 1, alpha)

\* for rank, doc in enumerate(bm25_hits): add to the entry, or make one
RECURSIVE Bm25Loop(_, _, _, _)
Bm25Loop(combined, bm25_hits, rank, alpha) ==
    IF rank >= Len(bm25_hits) THEN combined
    ELSE LET doc == bm25_hits[rank + 1]
             key == doc_key(doc)
             bm25_score == InvRank(rank)
             next == IF HasKey(combined, key)
                     THEN LET old == combined[KeyIndex(combined, key)]
                          IN DictSet(combined, key, old.doc,
                                     old.score + (AlphaDen - alpha) * bm25_score)
                     ELSE DictSet(combined, key, doc, (AlphaDen - alpha) * bm25_score)
         IN Bm25Loop(next, bm25_hits, rank + 1, alpha)

(***************************************************************************)
(* sorted(combined.values(), key=lambda x: x[1], reverse=True): a stable   *)
(* sort, so entries of equal score keep the order the dict holds them in.  *)
(***************************************************************************)
\* a plausible slip: an unstable sort, equal scores end in reverse order
RECURSIVE InsertDescUnstable(_, _)
InsertDescUnstable(sorted, x) ==
    IF sorted = <<>> THEN <<x>>
    ELSE IF Head(sorted).score > x.score
         THEN <<Head(sorted)>> \o InsertDescUnstable(Tail(sorted), x)
         ELSE <<x>> \o sorted

\* a plausible slip: equal scores are ordered by the hash in the key
RECURSIVE InsertDescByKey(_, _)
InsertDescByKey(sorted, x) ==
    IF sorted = <<>> THEN <<x>>
    ELSE IF \/ Head(sorted).score > x.score
            \/ Head(sorted).score = x.score /\ Head(sorted).key[3] <= x.key[3]
         THEN <<Head(sorted)>> \o InsertDescByKey(Tail(sorted), x)
         ELSE <<x>> \o sorted

\* x goes after every entry whose score is at least its own
RECURSIVE InsertDesc(_, _)
InsertDesc(sorted, x) ==
    IF sorted = <<>> THEN <<x>>
    ELSE IF Head(sorted).score >= x.score
         THEN <<Head(sorted)>> \o InsertDesc(Tail(sorted), x)
         ELSE <<x>> \o sorted

RECURSIVE SortFrom(_, _, _)
SortFrom(sorted, entries, i) ==
    IF i > Len(entries) THEN sorted
    ELSE SortFrom(InsertDesc(sorted, entries[i]), entries, i + 1)

\* a plausible slip: reverse=True forgotten
RECURSIVE SortedByScoreAsc(_)
SortedByScoreAsc(entries) ==
    IF entries = <<>> THEN <<>>
    ELSE LET rest == SortedByScoreAsc(Tail(entries))
             x == Head(entries)
             before == SelectSeq(rest, LAMBDA e : e.score < x.score)
             after == SelectSeq(rest, LAMBDA e : e.score >= x.score)
         IN before \o <<x>> \o after

SortedByScoreDesc(entries) == SortFrom(<<>>, entries, 1)

\* seq[:k] of Python: a negative k counts from the end
Slice(seq, k) ==
    LET n == Len(seq)
        stop == IF k >= 0 THEN (IF k < n THEN k ELSE n)
                ELSE (IF n + k > 0 THEN n + k ELSE 0)
    IN SubSeq(seq, 1, stop)

\* the (doc, score) tuples the caller gets
Values(entries) == [i \in 1..Len(entries) |-> [doc |-> entries[i].doc, score |-> entries[i].score]]

\* lines 68-89 of search_hybrid: merge, sort, truncate
hybrid_rank(vector_hits, bm25_hits, k, alpha) ==
    LET afterVector == VectorLoop(<<>>, vector_hits, 0, alpha)
        combined == Bm25Loop(afterVector, bm25_hits, 0, alpha)
        ranked == SortedByScoreDesc(combined)
    IN Slice(Values(ranked), k)

(***************************************************************************)
(* The collaborators of search_hybrid.  FAISS answers a search for k * 2   *)
(* neighbours with at most that many stored documents, and refuses a       *)
(* negative count; whether it refuses 0 depends on its version.  BM25 is   *)
(* asked only when the retriever exists.                                   *)
(***************************************************************************)
\* what the dense search answers: an exception, or a hit list
Raised == [raises |-> TRUE, hits |-> <<>>]
Hits(h) == [raises |-> FALSE, hits |-> h]

SetOf(seq) == {seq[i] : i \in 1..Len(seq)}

Min(a, b) == IF a <= b THEN a ELSE b

\* the fields of the VectorStore object, and the saved index
St == [store |-> store, bm25 |-> bm25, documents |-> documents, index_file |-> index_file]

DenseAnswers(S, k) ==
    IF k < 0 THEN {Raised}
    ELSE IF k = 0 THEN {Raised, Hits(<<>>)}
    ELSE {Hits(h) : h \in SeqsUpTo(SetOf(S.store[1]), Min(2 * k, MaxDense))}

LexicalAnswers(S) ==
    IF S.bm25 = None THEN {<<>>} ELSE SeqsUpTo(SetOf(S.bm25[1]), MaxLex)

\* what a call did: how it ended, the value returned, the collaborators it
\* called, and the hash salt of the process that ran it
\* and the texts it gave to the classifier, in the order it gave them
RetAsked(outcome, value, used, asked) ==
    [outcome |-> outcome, value |-> value, used |-> used, asked |-> asked,
     salt |-> hashSeed]

Ret(outcome, value, used) == RetAsked(outcome, value, used, <<>>)

\* VectorStore.search_hybrid, given what the two searches answer
\* a plausible slip: a store that is not ready answers with an empty list
search_hybrid_EmptyWhenNotReady(S, dense, bm25_hits, k, alpha) ==
    IF S.store = None
    THEN Ret("ok", <<>>, {})
    ELSE IF dense.raises
    THEN Ret("error raised by the dense search", <<>>, {"dense"})
    ELSE Ret("ok", hybrid_rank(dense.hits, bm25_hits, k, alpha),
             IF S.bm25 = None THEN {"dense"} ELSE {"dense", "lexical"})

\* a plausible slip: finding nothing is reported as an error
search_hybrid_RaisesOnNothing(S, dense, bm25_hits, k, alpha) ==
    IF S.store = None
    THEN Ret("RuntimeError: Vector store not initialized", <<>>, {})
    ELSE IF dense.raises \/ (dense.hits = <<>> /\ bm25_hits = <<>>)
    THEN Ret("error raised by the dense search", <<>>, {"dense"})
    ELSE Ret("ok", hybrid_rank(dense.hits, bm25_hits, k, alpha),
             IF S.bm25 = None THEN {"dense"} ELSE {"dense", "lexical"})

search_hybrid(S, dense, bm25_hits, k, alpha) ==
    IF S.store = None
    THEN Ret("RuntimeError: Vector store not initialized", <<>>, {})
    ELSE IF dense.raises
    THEN Ret("error raised by the dense search", <<>>, {"dense"})
    ELSE Ret("ok", hybrid_rank(dense.hits, bm25_hits, k, alpha),
             IF S.bm25 = None THEN {"dense"} ELSE {"dense", "lexical"})

Pending == [outcome |-> "pending", value |-> <<>>, used |-> {}, asked |-> <<>>, salt |-> 0]

(***************************************************************************)
(* SpecHybrid: search_hybrid on a store that holds HitDocs, for every      *)
(* answer of the two searches, every k and alpha of KValues, AlphaValues.  *)
(* The same call is made a second time, possibly by another process.       *)
(***************************************************************************)
KValues == {-1, 0, 1, 2, 3}
AlphaValues == {0, 5, 6, 10, 15}

\* two pages with the same text, and two texts on the same page
Stored == <<D1, D2, D4>>

InitHybrid ==
    /\ store = Some(Stored)
    /\ bm25 = Some(Stored)
    /\ documents = Stored
    /\ index_file = Some(Stored)
    /\ hashSeed \in Seeds
    /\ \E k \in KValues, alpha \in AlphaValues :
         \E dense \in DenseAnswers(St, k), bm25_hits \in LexicalAnswers(St) :
            call = [op |-> "search_hybrid", k |-> k, alpha |-> alpha,
                    dense |-> dense, bm25_hits |-> bm25_hits]
    /\ ret = Pending
    /\ ret2 = Pending

HybridCall ==
    /\ call.op = "search_hybrid"
    /\ ret = Pending
    /\ ret' = search_hybrid(St, call.dense, call.bm25_hits, call.k, call.alpha)
    /\ UNCHANGED <<store, bm25, documents, index_file, hashSeed, call, ret2>>

\* the process ends and another, with another hash salt, serves the store
HybridRestart ==
    /\ call.op = "search_hybrid"
    /\ ret # Pending
    /\ ret2 = Pending
    /\ hashSeed' \in Seeds \ {hashSeed}
    /\ UNCHANGED <<store, bm25, documents, index_file, call, ret, ret2>>

HybridAgain ==
    /\ call.op = "search_hybrid"
    /\ ret # Pending
    /\ ret2 = Pending
    /\ ret2' = search_hybrid(St, call.dense, call.bm25_hits, call.k, call.alpha)
    /\ UNCHANGED <<store, bm25, documents, index_file, hashSeed, call, ret>>

NextHybrid == HybridCall \/ HybridRestart \/ HybridAgain

SpecHybrid == InitHybrid /\ [][NextHybrid]_vars

(***************************************************************************)
(* GreenwashingVerifier.detect_claims                                      *)
(***************************************************************************)
green_terms ==
    << <<"g","r","e","e","n">>,
       <<"r","e","n","e","w","a","b","l","e">>,
       <<"s","o","l","a","r">>,
       <<"w","i","n","d">>,
       <<"e","n","e","r","g","y"," ","e","f","f","i","c","i","e","n","c","y">>,
       <<"e","m","i","s","s","i","o","n","s">>,
       <<"c","a","r","b","o","n">>,
       <<"s","u","s","t","a","i","n","a","b","l","e">>,
       <<"i","m","p","a","c","t">>,
       <<"s","d","g">>,
       <<"t","a","x","o","n","o","m","y">> >>

\* a plausible slip: the text is matched as written, lower() forgotten
HasGreenTermCaseSensitive(doc) ==
    \E t \in 1..Len(green_terms) : Contains(doc.page_content, green_terms[t])

\* a plausible slip: the whole text must be a term (a token match)
HasGreenTermWholeText(doc) ==
    \E t \in 1..Len(green_terms) : lower(doc.page_content) = green_terms[t]

\* any(term in text_lower for term in green_terms)
HasGreenTerm(doc) ==
    LET text_lower == lower(doc.page_content)
    IN \E t \in 1..Len(green_terms) : Contains(text_lower, green_terms[t])

RECURSIVE DetectLoop(_, _, _)
DetectLoop(hits, docs, i) ==
    IF i > Len(docs) THEN hits
    ELSE DetectLoop(IF HasGreenTerm(docs[i])
                    THEN Append(hits, <<docs[i], "claim_detected">>)
                    ELSE hits,
                    docs, i + 1)

detect_claims(docs) == DetectLoop(<<>>, docs, 1)

(***************************************************************************)
(* GreenwashingVerifier.verify_claims.  The classifier is the LLM chain:   *)
(* for each text it is given it answers some text, or raises.              *)
(***************************************************************************)
RImplemented == <<"i","m","p","l","e","m","e","n","t","e","d">>
RVerified == <<"I","m","p","l","e","m","e","n","t","e","d"," ","a","n","d"," ",
               "v","e","r","i","f","i","e","d">>
REmpty == <<"e","m","p","t","y">>
RUnclear == <<"u","n","c","l","e","a","r">>

Responses == {RImplemented, RVerified, REmpty, RUnclear}

Answered(text) == [raises |-> FALSE, text |-> text]
ClassifierRaised == [raises |-> TRUE, text |-> <<>>]
ClassifierAnswers == {Answered(r) : r \in Responses} \cup {ClassifierRaised}

\* the dict verify_claims makes of a document and its verdict;
\* metadata.get("page") of a document without page is None (NoPage)
Record(doc, verdict) == [page |-> doc.page, source |-> doc.source, verdict |-> verdict]

\* for doc, _ in claims: verdict = chain.run(text=doc.page_content); results.append(...)
\* An exception of the classifier is not caught: it ends the call.
RECURSIVE VerifyLoop(_, _, _, _, _)
VerifyLoop(results, asked, claims, answers, i) ==
    IF i > Len(claims)
    THEN RetAsked("ok", results, IF asked = <<>> THEN {} ELSE {"classifier"}, asked)
    ELSE LET doc == claims[i][1]
             askedNow == Append(asked, doc.page_content)
         IN IF answers[i].raises
            THEN RetAsked("error raised by the classifier", <<>>, {"classifier"}, askedNow)
            ELSE VerifyLoop(Append(results, Record(doc, answers[i].text)),
                            askedNow, claims, answers, i + 1)

verify_claims(claims, answers) == VerifyLoop(<<>>, <<>>, claims, answers, 1)

(***************************************************************************)
(* GreenwashingVerifier.green_implement_ratio: implemented / total, kept   *)
(* as the pair of the two counts; 0.0 is 0/1.                              *)
(***************************************************************************)
Ratio(num, den) == [num |-> num, den |-> den]

\* a plausible slip: the verdict must be the word itself
RECURSIVE CountImplementedExact(_, _)
CountImplementedExact(verified, i) ==
    IF i > Len(verified) THEN 0
    ELSE (IF lower(verified[i].verdict) = RImplemented THEN 1 ELSE 0)
         + CountImplementedExact(verified, i + 1)

\* sum(1 for v in verified if "implemented" in v["verdict"].lower())
RECURSIVE CountImplemented(_, _)
CountImplemented(verified, i) ==
    IF i > Len(verified) THEN 0
    ELSE (IF Contains(lower(verified[i].verdict), RImplemented) THEN 1 ELSE 0)
         + CountImplemented(verified, i + 1)

\* a plausible slip: records that say 'unclear' are left out of the total
green_implement_ratio_UnclearLeftOut(verified) ==
    LET decided == SelectSeq(verified, LAMBDA v : ~Contains(lower(v.verdict), RUnclear))
    IN IF verified = <<>> THEN Ratio(0, 1)
       ELSE Ratio(CountImplemented(decided, 1), Len(decided))

green_implement_ratio(verified) ==
    IF verified = <<>> THEN Ratio(0, 1)
    ELSE Ratio(CountImplemented(verified, 1), Len(verified))

(***************************************************************************)
(* SpecDetect: detect_claims on every list of up to MaxDocs documents.     *)
(* SpecVerify: verify_claims on every list of up to MaxClaims claims, for  *)
(* every way the classifier may answer.                                    *)
(***************************************************************************)
DetectDocs == {D1, D3, D4, D5}

InitDetect ==
    /\ store = None
    /\ bm25 = None
    /\ documents = <<>>
    /\ index_file = None
    /\ hashSeed \in Seeds
    /\ \E docs \in SeqsUpTo(DetectDocs, MaxDocs) :
          call = [op |-> "detect_claims", docs |-> docs]
    /\ ret = Pending
    /\ ret2 = Pending

DetectCall ==
    /\ call.op = "detect_claims"
    /\ ret = Pending
    /\ ret' = Ret("ok", detect_claims(call.docs), {"detector"})
    /\ UNCHANGED <<store, bm25, documents, index_file, hashSeed, call, ret2>>

SpecDetect == InitDetect /\ [][DetectCall]_vars

ClaimDocs == {D1, D2, D3}

InitVerify ==
    /\ store = None
    /\ bm25 = None
    /\ documents = <<>>
    /\ index_file = None
    /\ hashSeed \in Seeds
    /\ \E docs \in SeqsUpTo(ClaimDocs, MaxClaims) :
          call = [op |-> "verify_claims",
                  claims |-> [i \in 1..Len(docs) |-> <<docs[i], "claim_detected">>]]
    /\ ret = Pending
    /\ ret2 = Pending

VerifyCall ==
    /\ call.op = "verify_claims"
    /\ ret = Pending
    /\ \E answers \in [1..Len(call.claims) -> ClassifierAnswers] :
          ret' = verify_claims(call.claims, answers)
    /\ UNCHANGED <<store, bm25, documents, index_file, hashSeed, call, ret2>>

SpecVerify == InitVerify /\ [][VerifyCall]_vars

(***************************************************************************)
(* SpecRatio: green_implement_ratio on every list of up to MaxRecords      *)
(* records whose verdicts are texts a classifier may have answered.        *)
(***************************************************************************)
RNotImplemented == <<"n","o","t"," ","i","m","p","l","e","m","e","n","t","e","d">>
RUpper == <<"I","M","P","L","E","M","E","N","T","E","D">>
RImplement == <<"i","m","p","l","e","m","e","n","t">>

Verdicts == Responses \cup {RNotImplemented, RUpper, RImplement}

InitRatio ==
    /\ store = None
    /\ bm25 = None
    /\ documents = <<>>
    /\ index_file = None
    /\ hashSeed \in Seeds
    /\ \E verdicts \in SeqsUpTo(Verdicts, MaxRecords) :
          call = [op |-> "green_implement_ratio",
                  verified |-> [i \in 1..Len(verdicts) |-> Record(D1, verdicts[i])]]
    /\ ret = Pending
    /\ ret2 = Pending

RatioCall ==
    /\ call.op = "green_implement_ratio"
    /\ ret.outcome = "pending"
    /\ ret' = Ret("ok", green_implement_ratio(call.verified), {})
    /\ UNCHANGED <<store, bm25, documents, index_file, hashSeed, call, ret2>>

SpecRatio == InitRatio /\ [][RatioCall]_vars

(***************************************************************************)
(* SpecScore: the greenwashing check of RAGEngine.query on detected        *)
(* claims: verify_claims, then green_implement_ratio of its records, for   *)
(* every way the classifier may answer (ScoreAnswers) or fail.             *)
(***************************************************************************)
ScoreAnswers == {Answered(r) : r \in Verdicts} \cup {ClassifierRaised}

\* verified = verify_claims(detections); green_ratio = green_implement_ratio(verified)
verify_and_score(claims, answers) ==
    LET verified == verify_claims(claims, answers)
    IN IF verified.outcome # "ok"
       THEN RetAsked(verified.outcome, <<>>, verified.used, verified.asked)
       ELSE RetAsked("ok",
                     [verified |-> verified.value,
                      green_ratio |-> green_implement_ratio(verified.value)],
                     verified.used, verified.asked)

InitScore ==
    /\ store = None
    /\ bm25 = None
    /\ documents = <<>>
    /\ index_file = None
    /\ hashSeed \in Seeds
    /\ \E docs \in SeqsUpTo(ClaimDocs, MaxClaims) :
          \E answers \in [1..Len(docs) -> ScoreAnswers] :
             call = [op |-> "verify_and_score",
                     claims |-> [i \in 1..Len(docs) |-> <<docs[i], "claim_detected">>],
                     answers |-> answers]
    /\ ret = Pending
    /\ ret2 = Pending

VerifyAndScore ==
    /\ call.op = "verify_and_score"
    /\ ret.outcome = "pending"
    /\ ret' = verify_and_score(call.claims, call.answers)
    /\ UNCHANGED <<store, bm25, documents, index_file, hashSeed, call, ret2>>

SpecScore == InitScore /\ [][VerifyAndScore]_vars

(***************************************************************************)
(* SpecDeadline: verify_claims one turn of its loop at a time, while the   *)
(* caller's deadline may pass (or the caller may cancel) at any moment.    *)
(* verify_claims takes no deadline and reads no cancellation flag: the     *)
(* loop goes on as if nothing had happened.  ret holds the loop's state    *)
(* (results, the texts given to the classifier so far), ret2 what it was   *)
(* when the deadline passed.                                               *)
(***************************************************************************)
Running(r) == r.outcome \in {"pending", "running"}

InitDeadline ==
    /\ store = None
    /\ bm25 = None
    /\ documents = <<>>
    /\ index_file = None
    /\ hashSeed \in Seeds
    /\ \E docs \in SeqsUpTo(ClaimDocs, MaxClaims) :
          call = [op |-> "verify_claims",
                  claims |-> [i \in 1..Len(docs) |-> <<docs[i], "claim_detected">>],
                  cancelled |-> FALSE]
    /\ ret = Pending
    /\ ret2 = Pending

\* one turn: verdict = chain.run(text=doc.page_content); results.append(...)
VerifyTurn ==
    /\ Running(ret)
    /\ Len(ret.asked) < Len(call.claims)
    /\ LET doc == call.claims[Len(ret.asked) + 1][1]
           askedNow == Append(ret.asked, doc.page_content)
       IN \E answer \in ClassifierAnswers :
             ret' = IF answer.raises
                    THEN RetAsked("error raised by the classifier", <<>>,
                                  {"classifier"}, askedNow)
                    ELSE RetAsked("running", Append(ret.value, Record(doc, answer.text)),
                                  {"classifier"}, askedNow)
    /\ UNCHANGED <<store, bm25, documents, index_file, hashSeed, call, ret2>>

\* return results
VerifyReturn ==
    /\ Running(ret)
    /\ Len(ret.asked) = Len(call.claims)
    /\ ret' = RetAsked("ok", ret.value, ret.used, ret.asked)
    /\ UNCHANGED <<store, bm25, documents, index_file, hashSeed, call, ret2>>

\* the caller's deadline passes, or the caller cancels, while the call runs
DeadlinePasses ==
    /\ Running(ret)
    /\ ~call.cancelled
    /\ call' = [call EXCEPT !.cancelled = TRUE]
    /\ ret2' = ret
    /\ UNCHANGED <<store, bm25, documents, index_file, hashSeed, ret>>

NextDeadline == VerifyTurn \/ VerifyReturn \/ DeadlinePasses

SpecDeadline == InitDeadline /\ [][NextDeadline]_vars

(***************************************************************************)
(* VectorStore: save, add_documents, load_or_create, on the fields S.      *)
(* FAISS.from_documents of no document at all raises (there is no first    *)
(* embedding to size the index from).                                      *)
(***************************************************************************)
\* save(): the index is written only when there is one
save(S) == IF S.store # None THEN [S EXCEPT !.index_file = S.store] ELSE S

Done(S) == [st |-> S, raised |-> FALSE]
Failed(S) == [st |-> S, raised |-> TRUE]

\* a plausible slip: the BM25 retriever is built only when there is none,
\* as load_or_create does
add_documents_KeepsLexicalIndex(S, docs) ==
    IF S.store = None /\ docs = <<>>
    THEN Failed(S)
    ELSE LET indexed == IF S.store = None
                        THEN [S EXCEPT !.store = Some(docs)]
                        ELSE [S EXCEPT !.store = Some(S.store[1] \o docs)]
             extended == [indexed EXCEPT !.documents = S.documents \o docs]
             rebuilt == IF extended.documents # <<>> /\ extended.bm25 = None
                        THEN [extended EXCEPT !.bm25 = Some(extended.documents)]
                        ELSE extended
         IN Done(save(rebuilt))

add_documents(S, docs) ==
    IF S.store = None /\ docs = <<>>
    THEN Failed(S)
    ELSE LET indexed == IF S.store = None
                        THEN [S EXCEPT !.store = Some(docs)]
                        ELSE [S EXCEPT !.store = Some(S.store[1] \o docs)]
             extended == [indexed EXCEPT !.documents = S.documents \o docs]
             rebuilt == IF extended.documents # <<>>
                        THEN [extended EXCEPT !.bm25 = Some(extended.documents)]
                        ELSE extended
         IN Done(save(rebuilt))

\* a plausible slip: the index is always made anew from the documents given
load_or_create_MakesAnew(S, docs) ==
    LET made == IF docs # <<>>
                THEN save([S EXCEPT !.store = Some(docs),
                                    !.documents = S.documents \o docs])
                ELSE [S EXCEPT !.store = None]
    IN IF made.documents # <<>> /\ made.bm25 = None
       THEN Done([made EXCEPT !.bm25 = Some(made.documents)])
       ELSE Done(made)

load_or_create(S, docs) ==
    LET loaded == [S EXCEPT !.store = S.index_file]
        branch == IF S.index_file # None
                  THEN (IF docs # <<>> THEN add_documents(loaded, docs).st ELSE loaded)
                  ELSE IF docs # <<>>
                  THEN save([S EXCEPT !.store = Some(docs),
                                      !.documents = S.documents \o docs])
                  ELSE S
    IN IF branch.documents # <<>> /\ branch.bm25 = None
       THEN Done([branch EXCEPT !.bm25 = Some(branch.documents)])
       ELSE Done(branch)

(***************************************************************************)
(* RAGEngine.ingest and RAGEngine.query.                                   *)
(***************************************************************************)
\* docs: what process_file made of the paths
ingest(S, docs) ==
    IF S.store # None THEN add_documents(S, docs) ELSE load_or_create(S, docs)

AuditTrail(doc) ==
    [source_document |-> doc.source, page_number |-> doc.page,
     snippet |-> Slice(doc.page_content, 500)]

Card(green_ratio, docs) ==
    [greenwashing_score |-> green_ratio,
     audit_trail |-> [i \in 1..Len(docs) |-> AuditTrail(docs[i])]]

NoCard == [greenwashing_score |-> Ratio(0, 0), audit_trail |-> <<>>]

\* the store as query() leaves it: it loads a saved index when it has none
QueryStore(S) == IF S.store = None THEN load_or_create(S, <<>>).st ELSE S

\* default k and alpha of the call query() makes
QueryK == 5
QueryAlpha == 6

\* what is left of query() once the store is there, given the answers of the
\* two searches and of the classifier (one per detected claim)
query(S, dense, bm25_hits, answers) ==
    IF S.store = None
    THEN Ret("RuntimeError: No documents ingested; please add files before querying.",
             NoCard, {})
    ELSE LET results == search_hybrid(S, dense, bm25_hits, QueryK, QueryAlpha)
             docs == [i \in 1..Len(results.value) |-> results.value[i].doc]
             detections == detect_claims(docs)
             verified == verify_claims(detections, answers)
             used == results.used \cup {"detector"} \cup verified.used
         IN IF results.outcome # "ok"
            THEN Ret(results.outcome, NoCard, results.used)
            ELSE IF verified.outcome # "ok"
            THEN RetAsked(verified.outcome, NoCard, used, verified.asked)
            ELSE RetAsked("ok", Card(green_implement_ratio(verified.value), docs),
                          used, verified.asked)

\* how many claims query() detects in what search_hybrid returns
Detected(S, dense, bm25_hits) ==
    LET results == search_hybrid(S, dense, bm25_hits, QueryK, QueryAlpha)
    IN IF S.store = None \/ results.outcome # "ok" THEN 0
       ELSE Len(detect_claims([i \in 1..Len(results.value) |-> results.value[i].doc]))

(***************************************************************************)
(* Spec: one VectorStore and its RAGEngine, from a first start with no     *)
(* saved index.  At most MaxStored documents are ever ingested.            *)
(***************************************************************************)
EngineDocs == {D1, D3}
EngineK == {0, 1, 5}
EngineAlpha == {6, 15}

Held(S) == IF S.store = None THEN 0 ELSE Len(S.store[1])
OnDisk(S) == IF S.index_file = None THEN 0 ELSE Len(S.index_file[1])
Room(S) == MaxStored - (IF Held(S) >= OnDisk(S) THEN Held(S) ELSE OnDisk(S))

Batches(S) == IF Room(S) < 0 THEN {<<>>} ELSE SeqsUpTo(EngineDocs, Room(S))

Becomes(S) ==
    /\ store' = S.store
    /\ bm25' = S.bm25
    /\ documents' = S.documents
    /\ index_file' = S.index_file

NoValue(done) ==
    IF done.raised THEN Ret("error raised by FAISS.from_documents", <<>>, {})
    ELSE Ret("ok", <<>>, {})

\* no call is under way
Idle == [op |-> "idle"]

Init ==
    /\ store = None
    /\ bm25 = None
    /\ documents = <<>>
    /\ index_file = None
    /\ hashSeed \in Seeds
    /\ call = Idle
    /\ ret = Pending
    /\ ret2 = Pending

LoadOrCreate ==
    \E docs \in Batches(St) :
        LET done == load_or_create(St, docs)
        IN /\ call = Idle
           /\ Becomes(done.st)
           /\ call' = [op |-> "load_or_create", docs |-> docs]
           /\ ret' = NoValue(done)
           /\ UNCHANGED <<hashSeed, ret2>>

AddDocuments ==
    \E docs \in Batches(St) :
        LET done == add_documents(St, docs)
        IN /\ call = Idle
           /\ Becomes(done.st)
           /\ call' = [op |-> "add_documents", docs |-> docs]
           /\ ret' = NoValue(done)
           /\ UNCHANGED <<hashSeed, ret2>>

Save ==
    /\ call = Idle
    /\ Becomes(save(St))
    /\ call' = [op |-> "save"]
    /\ ret' = Ret("ok", <<>>, {})
    /\ UNCHANGED <<hashSeed, ret2>>

\* a plausible slip: search_hybrid loads the saved index when the store has
\* none, as query() does
SearchHybrid_LoadsSavedIndex ==
    LET S == [St EXCEPT !.store = IF store = None THEN index_file ELSE store]
    IN \E k \in EngineK, alpha \in EngineAlpha :
        \E dense \in (IF S.store = None THEN {Raised} ELSE DenseAnswers(S, k)),
           bm25_hits \in LexicalAnswers(S) :
            /\ call = Idle
            /\ call' = [op |-> "search_hybrid", k |-> k, alpha |-> alpha,
                        dense |-> dense, bm25_hits |-> bm25_hits]
            /\ ret' = search_hybrid(S, dense, bm25_hits, k, alpha)
            /\ store' = S.store
            /\ UNCHANGED <<bm25, documents, index_file, hashSeed, ret2>>

SearchHybrid ==
    \E k \in EngineK, alpha \in EngineAlpha :
        \E dense \in (IF store = None THEN {Raised} ELSE DenseAnswers(St, k)),
           bm25_hits \in LexicalAnswers(St) :
            /\ call = Idle
            /\ call' = [op |-> "search_hybrid", k |-> k, alpha |-> alpha,
                        dense |-> dense, bm25_hits |-> bm25_hits]
            /\ ret' = search_hybrid(St, dense, bm25_hits, k, alpha)
            /\ UNCHANGED <<store, bm25, documents, index_file, hashSeed, ret2>>

Ingest ==
    \E docs \in Batches(St) :
        LET done == ingest(St, docs)
        IN /\ call = Idle
           /\ Becomes(done.st)
           /\ call' = [op |-> "ingest", docs |-> docs]
           /\ ret' = NoValue(done)
           /\ UNCHANGED <<hashSeed, ret2>>

Query ==
    LET S == QueryStore(St)
    IN /\ call = Idle
       /\ Becomes(S)
       /\ call' = [op |-> "query"]
       /\ \E dense \in (IF S.store = None THEN {Raised} ELSE DenseAnswers(S, QueryK)),
             bm25_hits \in LexicalAnswers(S) :
              \E answers \in [1..Detected(S, dense, bm25_hits) -> ClassifierAnswers] :
                 ret' = query(S, dense, bm25_hits, answers)
       /\ UNCHANGED <<hashSeed, ret2>>

\* the caller has the result (or the exception); the next call may start
Return ==
    /\ call # Idle
    /\ call' = Idle
    /\ ret' = Pending
    /\ UNCHANGED <<store, bm25, documents, index_file, hashSeed, ret2>>

\* the program ends and is started again: the objects are new, the saved
\* index is still there
NewProcess ==
    /\ call = Idle
    /\ store' = None
    /\ bm25' = None
    /\ documents' = <<>>
    /\ hashSeed' \in Seeds
    /\ UNCHANGED <<index_file, call, ret, ret2>>

Next ==
    \/ LoadOrCreate
    \/ AddDocuments
    \/ Save
    \/ SearchHybrid
    \/ Ingest
    \/ Query
    \/ Return
    \/ NewProcess

Spec == Init /\ [][Next]_vars

(***************************************************************************)
(* Claims about search_hybrid, checked under SpecHybrid.                   *)
(***************************************************************************)
Returned(r) == r.outcome = "ok"

\* ranks (from 0) at which a chunk of this identity stands in a hit list
RanksOf(hits, doc) == {i - 1 : i \in {j \in 1..Len(hits) : Identity(hits[j]) = Identity(doc)}}

SetMin(S) == CHOOSE x \in S : \A y \in S : x <= y

\* C1: whatever the dense and lexical hit lists and whatever k, a list that
\* search_hybrid returns has at most k entries and its combined scores never
\* increase from one entry to the next.
C1_LengthAndOrder ==
    Returned(ret) =>
        /\ Len(ret.value) <= call.k
        /\ \A i \in 1..(Len(ret.value) - 1) : ret.value[i].score >= ret.value[i + 1].score

\* merged from both lists, truncated, and with scores that do decrease
C1_Witness ==
    /\ Returned(ret)
    /\ call.k = 2
    /\ Len(ret.value) = 2
    /\ Cardinality({Identity(d) : d \in SetOf(call.dense.hits) \cup SetOf(call.bm25_hits)}) > call.k
    /\ RanksOf(call.dense.hits, ret.value[1].doc) # {}
    /\ RanksOf(call.bm25_hits, ret.value[1].doc) # {}
    /\ ret.value[1].score > ret.value[2].score

\* C2: a returned chunk that stands once in the dense list, at rank rd, and
\* once in the lexical list, at rank rl, has score alpha/(1+rd) +
\* (1-alpha)/(1+rl); one that stands in one list only, once, has that list's
\* term only.  With alpha = 0.6: rank 0 in both is exactly 1.0, rank 0 in
\* the dense list only is 0.6, rank 0 in the lexical list only is 0.4.
C2_CombinedScore ==
    Returned(ret) =>
        \A i \in 1..Len(ret.value) :
            LET e == ret.value[i]
                rd == RanksOf(call.dense.hits, e.doc)
                rl == RanksOf(call.bm25_hits, e.doc)
                denseTerm == IF rd = {} THEN 0
                             ELSE call.alpha * (RankScale \div (1 + SetMin(rd)))
                lexTerm == IF rl = {} THEN 0
                           ELSE (AlphaDen - call.alpha) * (RankScale \div (1 + SetMin(rl)))
            IN (Cardinality(rd) <= 1 /\ Cardinality(rl) <= 1) =>
                  /\ e.score = denseTerm + lexTerm
                  /\ (call.alpha = 6 /\ rd = {0} /\ rl = {0}) => e.score * 10 = 10 * One
                  /\ (call.alpha = 6 /\ rd = {0} /\ rl = {}) => e.score * 10 = 6 * One
                  /\ (call.alpha = 6 /\ rd = {} /\ rl = {0}) => e.score * 10 = 4 * One

\* alpha = 0.6: one chunk at rank 0 of both lists (1.0), one at rank 1 of
\* the dense list only (0.3), one at rank 1 of the lexical list only (0.2)
C2_Witness ==
    /\ Returned(ret)
    /\ call.alpha = 6
    /\ Len(ret.value) = 3
    /\ RanksOf(call.dense.hits, ret.value[1].doc) = {0}
    /\ RanksOf(call.bm25_hits, ret.value[1].doc) = {0}
    /\ ret.value[1].score = One
    /\ RanksOf(call.dense.hits, ret.value[2].doc) = {1}
    /\ RanksOf(call.bm25_hits, ret.value[2].doc) = {}
    /\ RanksOf(call.dense.hits, ret.value[3].doc) = {}
    /\ RanksOf(call.bm25_hits, ret.value[3].doc) = {1}

\* the identities found by either search
HitIdentities == {Identity(d) : d \in SetOf(call.dense.hits) \cup SetOf(call.bm25_hits)}

\* C3: the returned list never holds two entries whose chunks have the same
\* (source, page, text): hits of one identity, from the dense list, the
\* lexical list or both, end in one entry, so that the list has one entry
\* for each identity found, up to k of them.
C3_OneEntryPerIdentity ==
    Returned(ret) =>
        /\ \A i, j \in 1..Len(ret.value) :
              Identity(ret.value[i].doc) = Identity(ret.value[j].doc) => i = j
        /\ \A i \in 1..Len(ret.value) : Identity(ret.value[i].doc) \in HitIdentities
        /\ Len(ret.value) = Min(call.k, Cardinality(HitIdentities))

\* one identity stands twice in the dense list and twice in the lexical list
C3_Witness ==
    /\ Returned(ret)
    /\ Len(ret.value) = 2
    /\ Cardinality(RanksOf(call.dense.hits, ret.value[1].doc)) = 2
    /\ Cardinality(RanksOf(call.bm25_hits, ret.value[1].doc)) = 2

\* C7: among returned entries of equal combined score, those whose chunk is
\* in the dense list come first, by increasing (first) dense rank, and those
\* whose chunk is in the lexical list only follow, by increasing (first)
\* lexical rank.
C7_TieOrder ==
    Returned(ret) =>
        \A i, j \in 1..Len(ret.value) :
            (i < j /\ ret.value[i].score = ret.value[j].score) =>
                LET di == RanksOf(call.dense.hits, ret.value[i].doc)
                    dj == RanksOf(call.dense.hits, ret.value[j].doc)
                    li == RanksOf(call.bm25_hits, ret.value[i].doc)
                    lj == RanksOf(call.bm25_hits, ret.value[j].doc)
                IN /\ (di # {} /\ dj # {}) => SetMin(di) < SetMin(dj)
                   /\ di = {} => dj = {}
                   /\ (di = {} /\ dj = {}) => SetMin(li) < SetMin(lj)

\* three entries of one score: two from the dense list, then a lexical one
C7_Witness ==
    /\ Returned(ret)
    /\ Len(ret.value) = 3
    /\ ret.value[1].score = ret.value[2].score
    /\ ret.value[2].score = ret.value[3].score
    /\ RanksOf(call.dense.hits, ret.value[1].doc) # {}
    /\ RanksOf(call.dense.hits, ret.value[2].doc) # {}
    /\ RanksOf(call.dense.hits, ret.value[3].doc) = {}

\* C8: a second run of search_hybrid with the same dense hits, lexical hits,
\* k and alpha, in the same process or in one with another hash salt, ends
\* as the first did and returns the same chunks with the same scores in the
\* same order.
C8_SameInputsSameOutput ==
    ret2.outcome # "pending" =>
        /\ ret2.outcome = ret.outcome
        /\ ret2.value = ret.value

\* the second run had another salt, and two texts of one page tie
C8_Witness ==
    /\ Returned(ret2)
    /\ ret2.salt # ret.salt
    /\ Len(ret2.value) >= 2
    /\ ret2.value[1].score = ret2.value[2].score
    /\ ret2.value[1].doc.page_content # ret2.value[2].doc.page_content
    /\ ret2.value[1].doc.page = ret2.value[2].doc.page

(***************************************************************************)
(* Claims about detect_claims (SpecDetect) and verify_claims (SpecVerify). *)
(***************************************************************************)
Ended(r) == r.outcome # "pending"

\* the text holds the term, whatever the case of the text's letters
HoldsTerm(text, term) ==
    \E off \in 0..(Len(text) - Len(term)) :
        \A j \in 1..Len(term) : LowerChar(text[off + j]) = term[j]

Flagged(doc) == \E t \in 1..Len(green_terms) : HoldsTerm(doc.page_content, green_terms[t])

FlaggedPlaces(docs) == {i \in 1..Len(docs) : Flagged(docs[i])}

\* the n-th smallest member of a set of numbers
RECURSIVE Nth(_, _)
Nth(S, n) == IF n = 1 THEN SetMin(S) ELSE Nth(S \ {SetMin(S)}, n - 1)

\* C9: detect_claims returns exactly the input chunks whose lower-cased
\* text holds a vocabulary term as a substring ("SOLAR" and "evergreen" are
\* flagged, a text without a term is not), each input place at most once and
\* in the order of the input.
C9_DetectIsOrderedFilter ==
    Ended(ret) =>
        LET places == FlaggedPlaces(call.docs)
        IN /\ Len(ret.value) = Cardinality(places)
           /\ \A n \in 1..Len(ret.value) : ret.value[n][1] = call.docs[Nth(places, n)]
           /\ \A i \in 1..Len(call.docs) :
                 /\ call.docs[i].page_content = TSolar => i \in places
                 /\ call.docs[i].page_content = TEvergreen => i \in places
                 /\ call.docs[i].page_content = TCoupon => i \notin places
                 /\ call.docs[i].page_content = TEnergy => i \notin places

\* "evergreen", a text without a term, then "SOLAR": two chunks returned
C9_Witness ==
    /\ Ended(ret)
    /\ Len(call.docs) = 3
    /\ call.docs[1].page_content = TEvergreen
    /\ call.docs[2].page_content = TCoupon
    /\ call.docs[3].page_content = TSolar
    /\ Len(ret.value) = 2
    /\ ret.value[1][1] = call.docs[1]
    /\ ret.value[2][1] = call.docs[3]

\* C10: verify_claims gives the classifier each input chunk's raw text
\* exactly once and returns one record per chunk, record i made from chunk i.
C10_OneRecordPerChunk ==
    Ended(ret) =>
        /\ ret.asked = [i \in 1..Len(call.claims) |-> call.claims[i][1].page_content]
        /\ Returned(ret)
        /\ Len(ret.value) = Len(call.claims)
        /\ \A i \in 1..Len(ret.value) :
              /\ ret.value[i].source = call.claims[i][1].source
              /\ ret.value[i].page = call.claims[i][1].page

(***************************************************************************)
(* Claims about the errors of search_hybrid and query.                     *)
(***************************************************************************)
\* C4: search_hybrid with k <= 0, or with alpha outside [0,1], fails with
\* an InvalidArgument error before the dense or the lexical search is asked.
C4_InvalidArgumentRejected ==
    (call.op = "search_hybrid" /\ Ended(ret)
       /\ (call.k <= 0 \/ call.alpha < 0 \/ call.alpha > AlphaDen)) =>
        /\ ret.outcome = "InvalidArgument"
        /\ ret.used = {}

NotReady(r) ==
    r.outcome \in {"RuntimeError: Vector store not initialized",
                   "RuntimeError: No documents ingested; please add files before querying."}

\* C5: with no saved index and nothing ingested, search_hybrid and query
\* fail with a not-ready error and no search, detection or classifier call
\* is made; an answer, the empty list included, comes from an initialised
\* store only.  (A failing call leaves the store as it was, so the state
\* after the call shows the state before it.)
C5_NotReadyIsAnError ==
    (call.op \in {"search_hybrid", "query"} /\ Ended(ret)) =>
        /\ (store = None /\ index_file = None) =>
              (NotReady(ret) /\ ret.used = {} /\ ret.asked = <<>>)
        /\ Returned(ret) => (store # None /\ ~NotReady(ret))

C5_Witness ==
    /\ call.op = "query"
    /\ store = None
    /\ index_file = None
    /\ documents = <<>>
    /\ NotReady(ret)
    /\ ret.used = {}

\* C6: on an initialised store, search_hybrid whose dense and lexical
\* searches both find nothing returns the empty list and raises nothing.
C6_NothingFoundIsEmptyList ==
    (call.op = "search_hybrid" /\ Ended(ret) /\ store # None
       /\ ~call.dense.raises /\ call.dense.hits = <<>> /\ call.bm25_hits = <<>>) =>
        /\ Returned(ret)
        /\ ret.value = <<>>

C6_Witness ==
    /\ call.op = "search_hybrid"
    /\ store # None
    /\ documents # <<>>
    /\ call.k >= 1
    /\ ~call.dense.raises
    /\ call.dense.hits = <<>>
    /\ call.bm25_hits = <<>>
    /\ Returned(ret)
    /\ ret.value = <<>>

(***************************************************************************)
(* Claims about the failures of the classifier.                            *)
(***************************************************************************)
\* C11: when the classifier fails for some chunk, verify_claims does not
\* abort: the failure is not raised to the caller, the chunks after the
\* failing one are still given to the classifier, and the call returns one
\* record for every input chunk (the failing chunk's saying 'unclear').
C11_ClassifierFailureContained ==
    (call.op = "verify_claims" /\ Ended(ret)) =>
        /\ ret.outcome # "error raised by the classifier"
        /\ Len(ret.asked) = Len(call.claims)
        /\ Len(ret.value) = Len(call.claims)

(***************************************************************************)
(* Claims about the greenwashing score.                                    *)
(***************************************************************************)
\* the records whose verdict text holds 'implemented', in any case
ImplementedPlaces(verified) ==
    {i \in 1..Len(verified) : HoldsTerm(verified[i].verdict, RImplemented)}

\* how many records have exactly this verdict text
Saying(verified, text) == Cardinality({i \in 1..Len(verified) : verified[i].verdict = text})

\* C12: green_implement_ratio of no record is 0.0; of a non-empty list it is
\* (records counted as implemented) / (all records), the records that say
\* unclear or empty counted in the denominator; it lies in [0,1]; two
\* implemented and two unclear records give 0.5.
C12_RatioOverAllRecords ==
    (call.op = "green_implement_ratio" /\ Ended(ret)) =>
        LET v == call.verified
            r == ret.value
        IN /\ v = <<>> => (r.num = 0 /\ r.den = 1)
           /\ v # <<>> => (r.num = Cardinality(ImplementedPlaces(v)) /\ r.den = Len(v))
           /\ r.den > 0 /\ 0 <= r.num /\ r.num <= r.den
           /\ (Len(v) = 4 /\ Saying(v, RImplemented) = 2 /\ Saying(v, RUnclear) = 2)
                 => 2 * r.num = r.den

\* implemented, unclear, implemented, unclear: 2/4
C12_Witness ==
    /\ call.op = "green_implement_ratio"
    /\ Ended(ret)
    /\ Len(call.verified) = 4
    /\ call.verified[1].verdict = RImplemented
    /\ call.verified[2].verdict = RUnclear
    /\ call.verified[3].verdict = RImplemented
    /\ call.verified[4].verdict = RUnclear
    /\ ret.value = Ratio(2, 4)

\* C13: a record counts as implemented exactly when the text the classifier
\* answered for its chunk holds 'implemented', in any case: the verdict of
\* a record is the answer as given, the score's numerator is the number of
\* such answers, and a classifier that answers 'Implemented and verified'
\* for every chunk makes every chunk implemented.
C13_ImplementedIsSubstring ==
    (call.op = "verify_and_score" /\ Returned(ret)) =>
        LET n == Len(call.claims)
            holding == {i \in 1..n : HoldsTerm(call.answers[i].text, RImplemented)}
        IN /\ Len(ret.value.verified) = n
           /\ \A i \in 1..n : ret.value.verified[i].verdict = call.answers[i].text
           /\ ret.value.green_ratio.num = Cardinality(holding)
           /\ (n > 0 /\ \A i \in 1..n : call.answers[i].text = RVerified) =>
                 ret.value.green_ratio = Ratio(n, n)

\* two chunks, 'Implemented and verified' for the first and 'implement'
\* for the second: one of two counts
C13_Witness ==
    /\ call.op = "verify_and_score"
    /\ Returned(ret)
    /\ Len(call.claims) = 2
    /\ call.answers[1].text = RVerified
    /\ call.answers[2].text = RImplement
    /\ ret.value.green_ratio = Ratio(1, 2)

(***************************************************************************)
(* Claims about cancellation.                                              *)
(***************************************************************************)
\* C14: once the caller's deadline has passed (or the caller has cancelled)
\* during verify_claims, no further chunk is given to the classifier, and
\* the call, if chunks were left, ends by returning the records completed
\* until then, marked as not completed, and not as a normal result.
C14_CancellationStopsTheBatch ==
    (call.op = "verify_claims" /\ call.cancelled) =>
        /\ ret.asked = ret2.asked
        /\ (~Running(ret) /\ Len(ret2.asked) < Len(call.claims)) =>
              (ret.outcome = "Cancelled" /\ ret.value = ret2.value)

(***************************************************************************)
(* Claims about repeated hits and about the store's state.                 *)
(***************************************************************************)
\* the sum of 1/(1+r) over the ranks r at which the chunk stands in the list
RECURSIVE RankSum(_, _, _)
RankSum(hits, doc, i) ==
    IF i > Len(hits) THEN 0
    ELSE (IF Identity(hits[i]) = Identity(doc) THEN RankScale \div i ELSE 0)
         + RankSum(hits, doc, i + 1)

\* C15: every place of the dense hit list adds to its chunk's score: a
\* chunk that stands at dense ranks r1, r2, ... has the dense contribution
\* alpha/(1+r1) + alpha/(1+r2) + ..., as its lexical places add
\* (1-alpha)/(1+r) each.
C15_DenseOccurrencesAccumulate ==
    (call.op = "search_hybrid" /\ Returned(ret)) =>
        \A i \in 1..Len(ret.value) :
            ret.value[i].score =
                call.alpha * RankSum(call.dense.hits, ret.value[i].doc, 1)
                + (AlphaDen - call.alpha) * RankSum(call.bm25_hits, ret.value[i].doc, 1)

\* C16: a call of search_hybrid, whether it returns or raises, leaves the
\* dense index, the lexical index, the document list and the saved index
\* as they were before the call.
C16_SearchHybridLeavesTheStore ==
    [][(call = Idle /\ call'.op = "search_hybrid") =>
          /\ store' = store
          /\ bm25' = bm25
          /\ documents' = documents
          /\ index_file' = index_file]_vars

\* a call that raised on a store not yet loaded, the index being on disk
C16_Witness ==
    /\ call.op = "search_hybrid"
    /\ NotReady(ret)
    /\ store = None
    /\ bm25 = None
    /\ index_file # None

\* C17: after any sequence of load_or_create and add_documents calls (and
\* of the engine's calls, which go through them), a store whose document
\* list is not empty has a lexical index, built from exactly that list.
C17_LexicalIndexNeverStale ==
    documents # <<>> => (bm25 # None /\ bm25[1] = documents)

\* the second of two add_documents calls: the index was built again
C17_Witness ==
    /\ call.op = "add_documents"
    /\ Len(call.docs) = 1
    /\ Len(documents) = 2
    /\ documents[2] = call.docs[1]
    /\ bm25 = Some(documents)

NoDocuments == "RuntimeError: No documents ingested; please add files before querying."

\* C18: a dense index that is set stays set through every ingest,
\* load_or_create, add_documents, save, search and query; and once an
\* ingest of at least one chunk has saved the index, no query, in this
\* process or a later one, fails with the no-documents error.
C18_InitialisedIsMonotone ==
    [][/\ (store # None /\ call'.op # "idle") => store' # None
       /\ (index_file # None /\ call'.op = "query") => ret'.outcome # NoDocuments]_vars

\* a query answered by a new process, from the index an earlier one saved
C18_Witness ==
    /\ call.op = "query"
    /\ Returned(ret)
    /\ documents = <<>>
    /\ store # None
    /\ store = index_file

====
